---------------------------- MODULE Spec2Model ----------------------------
(***************************************************************************)
(* Model of the crypto-dash refresh job, scripts/update_data.py: the ETL   *)
(* process CryptoDataUpdater (extract with cache and retry, transform,     *)
(* batched load, market statistics) and its drivers run_update,            *)
(* run_continuous and main.                                                *)
(*                                                                         *)
(* Raw values.  A JSON value of a raw record is a record                   *)
(*   [k, n, s]  with  k = "abs"  the key is not in the dict                *)
(*                    k = "null" the value is None                         *)
(*                    k = "num"  the number n                              *)
(*                    k = "flt"  the float n.0 (an integer-valued float)    *)
(*                    k = "big"  an integer outside the float range        *)
(*                    k = "str"  the string s                              *)
(* A raw list element is a record over the fields the pipeline reads, plus *)
(* py, the Python type of the element ("dict", "str" or "int").            *)
(***************************************************************************)
EXTENDS Integers, Sequences, FiniteSets, TLC

\* ------------------------------------------------------------------ bounds
MaxLen == 3        \* longest raw list drawn for the pure-function runs
MaxCycles == 2     \* cycles of run_continuous that are explored
MaxCalls == 5      \* remote calls of one run that are explored
MaxWrites == 5     \* pipeline executions of one run that are explored
BatchBound == 2    \* the batch size is scaled down to this many records

\* ------------------------------------------------------- program constants
MAX_RETRIES == 5
RETRY_DELAY == 10
max_retries == 3
RAW_TTL == 300
PRICE_TTL == 3600
\* delays are counted in tenths of a second
RATE_LIMIT_DELAY == 12
base_delay == 10
BATCH_PAUSE == 1

\* batch_size = 100 in update_database, scaled down to BatchBound
batch_size == IF BatchBound < 100 THEN BatchBound ELSE 100

\* a raw list that needs three batches, the last one partial
BigN == 2 * batch_size + 1

\* ------------------------------------------------------------------ values
Abs == [k |-> "abs", n |-> 0, s |-> ""]
Null == [k |-> "null", n |-> 0, s |-> ""]
Num(x) == [k |-> "num", n |-> x, s |-> ""]
Str(x) == [k |-> "str", n |-> 0, s |-> x]
Flt(x) == [k |-> "flt", n |-> x, s |-> ""]
Big == [k |-> "big", n |-> 0, s |-> ""]

\* dict.get(field): None when the key is absent
Get(item, f) == IF item[f].k = "abs" THEN Null ELSE item[f]

\* dict.get(field, default)
GetD(item, f, d) == IF item[f].k = "abs" THEN d ELSE item[f]

\* `field in item` for a dict
HasKey(item, f) == item[f].k # "abs"

\* Python truth value of a JSON value
Truthy(v) ==
    CASE v.k = "null" -> FALSE
      [] v.k \in {"num", "flt"} -> v.n # 0
      [] v.k = "str" -> v.s # ""
      [] v.k = "big" -> TRUE
      [] OTHER -> FALSE

required_fields == <<"id", "symbol", "name", "current_price">>

\* str.lower() on the identifiers the runs use
Lower(s) ==
    CASE s = "BTC" -> "btc"
      [] s = "Bitcoin" -> "bitcoin"
      [] s = "ETH" -> "eth"
      [] OTHER -> s

\* str.upper()
Upper(s) ==
    CASE s = "btc" -> "BTC"
      [] s = "eth" -> "ETH"
      [] s = "ada" -> "ADA"
      [] s = "bitcoin" -> "BITCOIN"
      [] OTHER -> s

\* str.strip()
Strip(s) ==
    CASE s = " Bitcoin " -> "Bitcoin"
      [] s = " " -> ""
      [] OTHER -> s

\* str(value) of a JSON value
PyStr(v) ==
    CASE v.k = "str" -> v.s
      [] v.k = "null" -> "None"
      [] v.k = "num" -> ToString(v.n)
      [] v.k = "flt" -> ToString(v.n) \o ".0"
      [] OTHER -> "1e400"

\* '.' in str(value)
HasDot(v) ==
    CASE v.k = "flt" -> TRUE
      [] v.k = "str" -> v.s \in {"123.0", "."}
      [] OTHER -> FALSE

\* float(s) of a string: [ok, n]; ok = FALSE is ValueError
ParseFloat(s) ==
    CASE s = "7" -> [ok |-> TRUE, n |-> 7]
      [] s = "123.0" -> [ok |-> TRUE, n |-> 123]
      [] s = "-5" -> [ok |-> TRUE, n |-> -5]
      [] OTHER -> [ok |-> FALSE, n |-> 0]

\* ------------------------------------------------------------ transformation
\* _validate_crypto_item: every required field present and not None
_validate_crypto_item(item) ==
    \A i \in 1..Len(required_fields) : Get(item, required_fields[i]).k # "null"

\* safe_float: [exc, v]; exc = TRUE is an exception that escapes the helper
\* (float() of an integer outside the float range raises OverflowError,
\* which the helper does not catch)
safe_float(value, default) ==
    CASE value.k = "null" -> [exc |-> FALSE, v |-> default]
      [] value.k = "str" /\ value.s = "" -> [exc |-> FALSE, v |-> default]
      [] value.k \in {"num", "flt"} -> [exc |-> FALSE, v |-> value.n]
      [] value.k = "str" ->
            IF ParseFloat(value.s).ok
            THEN [exc |-> FALSE, v |-> ParseFloat(value.s).n]
            ELSE [exc |-> FALSE, v |-> default]
      [] OTHER -> [exc |-> TRUE, v |-> default]

\* safe_int: int(float(value)) unless str(value) contains a '.'
safe_int(value, default) ==
    CASE value.k = "null" -> [exc |-> FALSE, v |-> default]
      [] value.k = "str" /\ value.s = "" -> [exc |-> FALSE, v |-> default]
      [] HasDot(value) -> [exc |-> FALSE, v |-> default]
      [] value.k = "num" -> [exc |-> FALSE, v |-> value.n]
      [] value.k = "str" ->
            IF ParseFloat(value.s).ok
            THEN [exc |-> FALSE, v |-> ParseFloat(value.s).n]
            ELSE [exc |-> FALSE, v |-> default]
      [] OTHER -> [exc |-> TRUE, v |-> default]

\* the numeric conversions of _clean_crypto_data, in evaluation order
CleanNumbers(item) ==
    [price |-> safe_float(Get(item, "current_price"), 0),
     market_cap |-> safe_float(Get(item, "market_cap"), 0),
     volume_24h |-> safe_float(Get(item, "total_volume"), 0),
     change_24h |-> safe_float(Get(item, "price_change_percentage_24h"), 0),
     market_cap_rank |-> safe_int(Get(item, "market_cap_rank"), 0)]

\* datetime.utcnow() read by _clean_crypto_data, and read by update_database
T_TRANSFORM == "t_transform"

T_LOAD == "t_load"

\* _clean_crypto_data: [exc, rec]
_clean_crypto_data(item) ==
    LET c == CleanNumbers(item)
    IN  [exc |-> \E f \in DOMAIN c : c[f].exc,
         rec |-> [id |-> Lower(PyStr(GetD(item, "id", Str("")))),
                  symbol |-> Lower(PyStr(GetD(item, "symbol", Str("")))),
                  name |-> Strip(PyStr(GetD(item, "name", Str("")))),
                  price |-> c.price.v,
                  market_cap |-> c.market_cap.v,
                  volume_24h |-> c.volume_24h.v,
                  change_24h |-> [num |-> c.change_24h.v, den |-> 100],
                  image_url |-> Strip(PyStr(GetD(item, "image", Str("")))),
                  market_cap_rank |-> c.market_cap_rank.v,
                  last_updated |-> T_TRANSFORM,
                  data_quality_score |-> 0]]

\* the (field, weight) checks of _calculate_quality_score
checks ==
    <<[field |-> "current_price", weight |-> 5],
      [field |-> "market_cap", weight |-> 10],
      [field |-> "total_volume", weight |-> 5],
      [field |-> "price_change_percentage_24h", weight |-> 5],
      [field |-> "image", weight |-> 2],
      [field |-> "market_cap_rank", weight |-> 3]>>

\* deducts the weight of the fields that are there
RECURSIVE Deduct_inverted(_, _)
Deduct_inverted(item, i) ==
    IF i > Len(checks) THEN 0
    ELSE (IF Truthy(Get(item, checks[i].field)) THEN checks[i].weight ELSE 0)
         + Deduct_inverted(item, i + 1)

RECURSIVE Deduct(_, _)
Deduct(item, i) ==
    IF i > Len(checks) THEN 0
    ELSE (IF ~Truthy(Get(item, checks[i].field)) THEN checks[i].weight ELSE 0)
         + Deduct(item, i + 1)

Max(a, b) == IF a >= b THEN a ELSE b

Min(a, b) == IF a <= b THEN a ELSE b

\* _calculate_quality_score
_calculate_quality_score(item) == Max(0, 100 - Deduct(item, 1))

\* what the loop body of transform_data does with one raw element:
\*   "ok" appended, "invalid" skipped by validation, "error" skipped by the
\*   except clause, "raise" the except clause itself raises (item.get on a
\*   value that is not a dict)
ItemOutcome(item) ==
    IF item.py # "dict" THEN "raise"
    ELSE IF ~_validate_crypto_item(item) THEN "invalid"
    ELSE IF _clean_crypto_data(item).exc THEN "error"
    ELSE "ok"

Indices(seq) == [i \in 1..Len(seq) |-> i]

TransformOne(item) ==
    [_clean_crypto_data(item).rec EXCEPT
        !.data_quality_score = _calculate_quality_score(item)]

\* transform_data: [raised, out, errors]; when raised the call returns nothing
transform_data(data) ==
    LET bad(i) == ItemOutcome(data[i]) = "raise"
        good == SelectSeq(data, LAMBDA it : ItemOutcome(it) = "ok")
        errIdx == SelectSeq(Indices(data),
                            LAMBDA i : ItemOutcome(data[i]) \in {"invalid", "error"})
    IN  IF \E i \in 1..Len(data) : bad(i)
        THEN [raised |-> TRUE, out |-> <<>>, errors |-> <<>>]
        ELSE [raised |-> FALSE,
              out |-> [i \in 1..Len(good) |-> TransformOne(good[i])],
              errors |-> [i \in 1..Len(errIdx) |->
                            [i |-> errIdx[i] - 1, why |-> ItemOutcome(data[errIdx[i]])]]]

\* ------------------------------------------------------------ market source
\* a raw record (a dict of the JSON array the market source returns)
Coin(id, symbol, name, price, cap, vol) ==
    [py |-> "dict", id |-> id, symbol |-> symbol, name |-> name,
     current_price |-> price, market_cap |-> cap, total_volume |-> vol,
     price_change_percentage_24h |-> Num(250), image |-> Str("http://img"),
     market_cap_rank |-> Num(1)]

\* a list element that is not a dict: py = "int" (a number) or "str"
NotADict(py) ==
    [py |-> py, id |-> Abs, symbol |-> Abs, name |-> Abs,
     current_price |-> Abs, market_cap |-> Abs, total_volume |-> Abs,
     price_change_percentage_24h |-> Abs, image |-> Abs, market_cap_rank |-> Abs]

btc == Coin(Str("Bitcoin"), Str("btc"), Str(" Bitcoin "), Num(50000), Num(900), Num(30))

eth == Coin(Str("ethereum"), Str("eth"), Str("Ethereum"), Num(3000), Num(400), Num(20))

\* current_price is null: the key is there, the value is None
ada_null_price == Coin(Str("cardano"), Str("ada"), Str("Cardano"), Null, Num(50), Num(5))

\* market_cap and total_volume are null
doge_null_cap == Coin(Str("dogecoin"), Str("doge"), Str("Dogecoin"), Num(1), Null, Null)

\* the symbol key is missing
no_symbol == Coin(Str("xrp"), Abs, Str("XRP"), Num(2), Num(60), Num(6))

\* the i-th of many well-formed records
CoinN(i) ==
    Coin(Str("c" \o ToString(i)), Str("s" \o ToString(i)), Str("n" \o ToString(i)),
         Num(i), Num(i), Num(1))

ManyCoins(n) == [i \in 1..n |-> CoinN(i)]

\* a list of which n records are accepted and one (null price) is not
MixedCoins(n) == <<btc, ada_null_price, doge_null_cap>> \o ManyCoins(n - 2)

\* the JSON bodies a 200 response can carry: [is_list, items]
ListBody(items) == [is_list |-> TRUE, items |-> items]

ObjectBody == [is_list |-> FALSE, items |-> <<>>]

Bodies ==
    {ListBody(MixedCoins(BigN)),
     ListBody(<<ada_null_price>>),
     ListBody(ManyCoins(5) \o <<NotADict("int")>>),
     ListBody(<<btc, no_symbol>>),
     ListBody(<<btc, NotADict("str")>>),
     ListBody(<<NotADict("int")>>),
     ListBody(<<>>),
     ObjectBody}

\* what one GET /coins/markets can do: raise a transport or status error
\* (httpx.RequestError, httpx.HTTPStatusError) or answer 200 with a body
Responses ==
    {[err |-> TRUE, body |-> ObjectBody]} \cup {[err |-> FALSE, body |-> b] : b \in Bodies}

\* ---------------------------------------------------------------- extraction
\* validate_api_response: "ok", "invalid" (returns False) or "TypeError"
\* (`field in item` on an element that is not iterable)
RECURSIVE CheckItems(_, _)
CheckItems(items, j) ==
    IF j > Min(5, Len(items)) THEN "ok"
    ELSE IF items[j].py = "int" THEN "TypeError"
    ELSE IF items[j].py = "str" THEN "invalid"
    ELSE IF ~(\A f \in 1..Len(required_fields) : HasKey(items[j], required_fields[f]))
         THEN "invalid"
    ELSE CheckItems(items, j + 1)

validate_api_response(body) ==
    IF body.is_list /\ body.items = <<>> THEN "invalid"
    ELSE IF ~body.is_list THEN "invalid"
    ELSE CheckItems(body.items, 1)

\* the outcome of one pass through the try block of the retry loop:
\*   "ok", "retryable" (an exception the inner except clause catches) or
\*   "fatal" (an exception it does not catch)
AttemptOutcome(resp) ==
    IF resp.err THEN "retryable"
    ELSE CASE validate_api_response(resp.body) = "ok" -> "ok"
           [] validate_api_response(resp.body) = "invalid" -> "retryable"
           [] OTHER -> "fatal"

\* gives up one attempt early
LastAttempt_early(a) == a = MAX_RETRIES - 2

\* never recognises the last attempt
LastAttempt_never(a) == a = MAX_RETRIES

\* attempt == MAX_RETRIES - 1
LastAttempt(a) == a = MAX_RETRIES - 1

RECURSIVE Pow2(_)
Pow2(n) == IF n = 0 THEN 1 ELSE 2 * Pow2(n - 1)

\* grows by RETRY_DELAY with every attempt instead of doubling
BackoffDelay_linear(a) == RETRY_DELAY * (a + 1) * 10

\* delay = RETRY_DELAY * (2 ** attempt), in tenths of a second
BackoffDelay(a) == RETRY_DELAY * Pow2(a) * 10

\* json.dumps / json.loads of the raw list
JsonDumps(d) == [json |-> d]

JsonLoads(t) == t.json

\* --------------------------------------------------------------------- load
REDIS_KEY_PREFIX == "crypto:"

MARKET_STATS_KEY == REDIS_KEY_PREFIX \o "market:stats"

\* item.get(key, default) on a transformed record
CleanGet(item, key, default) == IF key \in DOMAIN item THEN item[key] ELSE default

\* key = f"{REDIS_KEY_PREFIX}price:{crypto_id.lower()}"
PriceKey(item) == REDIS_KEY_PREFIX \o "price:" \o Lower(item.id)

\* stamps the value with the time of the load
RedisValue_restamp(item, now) ==
    [id |-> item.id,
     symbol |-> Upper(CleanGet(item, "symbol", "")),
     name |-> CleanGet(item, "name", ""),
     current_price |-> CleanGet(item, "current_price", 0),
     price_change_percentage_24h |->
         CleanGet(item, "price_change_percentage_24h", [num |-> 0, den |-> 1]),
     market_cap |-> CleanGet(item, "market_cap", 0),
     total_volume |-> CleanGet(item, "total_volume", 0),
     image |-> CleanGet(item, "image", ""),
     last_updated |-> now]

\* the JSON object update_database stores for one transformed record
RedisValue(item, now) ==
    [id |-> item.id,
     symbol |-> Upper(CleanGet(item, "symbol", "")),
     name |-> CleanGet(item, "name", ""),
     current_price |-> CleanGet(item, "current_price", 0),
     price_change_percentage_24h |->
         CleanGet(item, "price_change_percentage_24h", [num |-> 0, den |-> 1]),
     market_cap |-> CleanGet(item, "market_cap", 0),
     total_volume |-> CleanGet(item, "total_volume", 0),
     image |-> CleanGet(item, "image", ""),
     last_updated |-> CleanGet(item, "last_updated", now)]

\* redis_data: the key -> value dict built from a batch (a record whose id
\* is empty is skipped; a later record replaces an earlier one with its key)
RedisData(batch, now) ==
    LET J == {j \in 1..Len(batch) : batch[j].id # ""}
        ks == [j \in J |-> PriceKey(batch[j])]
        last(k) == CHOOSE j \in J : ks[j] = k /\ \A j2 \in J : ks[j2] = k => j2 <= j
    IN  [k \in {ks[j] : j \in J} |-> RedisValue(batch[last(k)], now)]

\* total_batches = (len(data) + batch_size - 1) // batch_size
TotalBatches(n) == (n + batch_size - 1) \div batch_size

\* batch = data[i:i + batch_size]
BatchOf(d, i) == SubSeq(d, i + 1, Min(i + batch_size, Len(d)))

\* batch_num of the batch that starts at offset i
BatchNum(i) == (i \div batch_size) + 1

\* drops a trailing batch of one record
HasNextBatch_short(i, n) == i + batch_size + 1 < n

\* range(0, len(data), batch_size) has another element after i
HasNextBatch(i, n) == i + batch_size < n

\* does not recognise the last attempt
LastStoreAttempt_never(a) == a = max_retries

\* attempt == max_retries - 1 in _store_in_redis
LastStoreAttempt(a) == a = max_retries - 1

\* delay = base_delay * (2 ** attempt), in tenths of a second
StoreDelay(a) == base_delay * Pow2(a)

\* runs the commands one by one and stops after the first
PipelineExecute_partial(store, rdata) ==
    IF rdata = << >> THEN store
    ELSE LET k1 == CHOOSE k \in DOMAIN rdata : TRUE
         IN  [k \in (DOMAIN store) \cup {k1} |->
                IF k = k1 THEN [v |-> rdata[k], ttl |-> PRICE_TTL] ELSE store[k]]

\* pipe.set(key, value, ex=3600) for every key, executed as one transaction
PipelineExecute(store, rdata) ==
    [k \in (DOMAIN store) \cup (DOMAIN rdata) |->
        IF k \in DOMAIN rdata THEN [v |-> rdata[k], ttl |-> PRICE_TTL] ELSE store[k]]

\* ------------------------------------------------------------------- state
VARIABLES
    UPDATE_INTERVAL,  \* refresh interval of this run (seconds; <= 0: run once)
    pc,               \* where the process is
    redis_client,     \* the global handle: "None" or "client"
    cache,            \* the Redis keys: [raw, store]
    stats,            \* self.stats
    loc,              \* the locals of the running calls
    obs,              \* what an observer of the current cycle has seen
    t_in, t_out, t_pc \* argument, result and position of a pure-function run

vars == <<UPDATE_INTERVAL, pc, redis_client, cache, stats, loc, obs, t_in, t_out, t_pc>>

procVars == <<UPDATE_INTERVAL, pc, redis_client, cache, stats, loc, obs>>

pureVars == <<t_in, t_out, t_pc>>

NoRaw == [present |-> FALSE, ttl |-> 0, v |-> JsonDumps(<<>>)]

\* the key "crypto_data_latest" holding "[]": the store is shared and outlives
\* the process, so the key can hold a value this run did not write
LeftEmpty == [present |-> TRUE, ttl |-> RAW_TTL, v |-> JsonDumps(<<>>)]

InitStats ==
    [total_requests |-> 0, successful_requests |-> 0, failed_requests |-> 0,
     total_records_processed |-> 0, cache_hits |-> 0, cache_misses |-> 0]

InitLoc ==
    [cycle_count |-> 0, attempt |-> 0, data |-> <<>>, transformed_data |-> <<>>,
     i |-> 0, success_count |-> 0, failed_count |-> 0, store_attempt |-> 0,
     sleep |-> 0, exit_code |-> 0, handles |-> 0, closed |-> FALSE,
     cycle_time |-> 0, sleep_time |-> 0, all_calls |-> 0, all_writes |-> 0]

\* how many answers of each class the source gave in this extraction
NoLog == [error |-> 0, rejected |-> 0, malformed |-> 0, ok |-> 0]

InitObs ==
    [phase |-> "Idle", cycle_result |-> "none", fetch_outcome |-> "none",
     calls |-> 0, rate_waits |-> 0, resp_log |-> NoLog, stats0 |-> InitStats,
     raw0 |-> NoRaw, last_body |-> <<>>, read_failed |-> FALSE,
     batches |-> <<>>, entered_load |-> FALSE, cancelled |-> FALSE,
     prev_result |-> "none", store0 |-> << >>]

ProcInit ==
    /\ UPDATE_INTERVAL \in {0, 300}
    /\ pc = "main"
    /\ redis_client = "None"
    /\ cache \in {[raw |-> r, store |-> << >>] : r \in {NoRaw, LeftEmpty}}
    /\ stats = InitStats
    /\ loc = InitLoc
    /\ obs = InitObs

PureIdle ==
    /\ t_in = <<>>
    /\ t_out = <<>>
    /\ t_pc = "off"

Init == ProcInit /\ PureIdle

Continuous == UPDATE_INTERVAL > 0

\* cycle durations (seconds) the run_continuous loop can measure
CycleTimes == {1, 300, 400}

\* ------------------------------------------------- how a cycle ends
\* run_update raised: run_continuous logs and sleeps RETRY_DELAY; main (run
\* once) logs, calls sys.exit(1) and closes in its finally clause
\* a fatal cycle ends the loop
RaisedPc_exit == "closing"

RaisedPc == IF Continuous THEN "error_sleep" ELSE "closing"

\* the caller does not learn that run_update raised
RaisedLoc_quiet(l) == l

RaisedLoc(l) ==
    IF Continuous THEN [l EXCEPT !.sleep = RETRY_DELAY * 10]
    ELSE [l EXCEPT !.exit_code = 1]

\* a cycle that returns is handled like one that raised
ReturnedPc_raise == IF Continuous THEN "error_sleep" ELSE "closing"

\* run_update returned
ReturnedPc == IF Continuous THEN "cycle_end" ELSE "closing"

\* ------------------------------------------------------------------ actions
\* init_redis: from_url creates a handle; if the ping fails it is dropped
InitRedis(up) ==
    /\ redis_client' = IF up THEN "client" ELSE "None"
    /\ loc' = [loc EXCEPT !.handles = @ + 1]

\* main, up to the branch on UPDATE_INTERVAL
Main ==
    /\ pc = "main"
    /\ \E up \in BOOLEAN : InitRedis(up)
    /\ pc' = IF UPDATE_INTERVAL <= 0 THEN "loop_top" ELSE "rc_init"
    /\ UNCHANGED <<UPDATE_INTERVAL, cache, stats, obs, pureVars>>

\* run_continuous, up to the loop
RunContinuousInit ==
    /\ pc = "rc_init"
    /\ \E up \in BOOLEAN : InitRedis(up)
    /\ pc' = "loop_top"
    /\ UNCHANGED <<UPDATE_INTERVAL, cache, stats, obs, pureVars>>

\* the top of the loop (or main's single call): run_update starts and calls
\* fetch_crypto_data
StartCycle ==
    /\ pc = "loop_top"
    /\ loc.cycle_count < MaxCycles
    /\ loc' = [loc EXCEPT !.cycle_count = @ + 1, !.attempt = 0, !.data = <<>>,
                          !.transformed_data = <<>>, !.i = 0, !.success_count = 0,
                          !.failed_count = 0, !.store_attempt = 0, !.sleep = 0,
                          !.cycle_time = 0, !.sleep_time = 0]
    /\ obs' = [InitObs EXCEPT !.phase = "Extract", !.cycle_result = "running",
                              !.stats0 = stats, !.prev_result = obs.cycle_result,
                              !.store0 = cache.store]
    /\ pc' = "fetch_cache"
    /\ UNCHANGED <<UPDATE_INTERVAL, redis_client, cache, stats, pureVars>>

\* counts the hit as a miss
RecordHit_asMiss(st) == [st EXCEPT !.cache_misses = @ + 1]

\* self.stats['cache_hits'] += 1
RecordHit(st) == [st EXCEPT !.cache_hits = @ + 1]

\* leaves the miss uncounted
RecordMiss_uncounted(st) == st

\* self.stats['cache_misses'] += 1
RecordMiss(st) == [st EXCEPT !.cache_misses = @ + 1]

\* self.stats['successful_requests'] += 1; self.stats['total_requests'] += 1
RecordSuccess(st) ==
    [st EXCEPT !.successful_requests = @ + 1, !.total_requests = @ + 1]

\* self.stats['failed_requests'] += 1
RecordFailure(st) == [st EXCEPT !.failed_requests = @ + 1]

\* reads the key without looking at the handle or at the outcome of the read
get_cache_noguard(readOk) ==
    IF cache.raw.present
    THEN [hit |-> TRUE, v |-> cache.raw.v]
    ELSE [hit |-> FALSE, v |-> JsonDumps(<<>>)]

\* get_cache: None without a client, on a read error or when the key is absent
get_cache(readOk) ==
    IF redis_client = "client" /\ readOk /\ cache.raw.present
    THEN [hit |-> TRUE, v |-> cache.raw.v]
    ELSE [hit |-> FALSE, v |-> JsonDumps(<<>>)]

\* fetch_crypto_data, the cache lookup
FetchCheckCache ==
    /\ pc = "fetch_cache"
    /\ \E readOk \in BOOLEAN :
         LET c == get_cache(readOk)
         IN  IF c.hit
             THEN /\ stats' = RecordHit(stats)
                  /\ loc' = [loc EXCEPT !.data = JsonLoads(c.v)]
                  /\ obs' = [obs EXCEPT !.fetch_outcome = "hit", !.raw0 = cache.raw]
                  /\ pc' = "fetched"
             ELSE /\ stats' = RecordMiss(stats)
                  /\ loc' = [loc EXCEPT !.attempt = 0]
                  /\ obs' = [obs EXCEPT !.raw0 = cache.raw, !.read_failed =
                                            (redis_client = "client" /\ ~readOk)]
                  /\ pc' = "fetch_wait"
    /\ UNCHANGED <<UPDATE_INTERVAL, redis_client, cache, pureVars>>

\* check_rate_limit
FetchRateLimit ==
    /\ pc = "fetch_wait"
    /\ loc' = [loc EXCEPT !.sleep = RATE_LIMIT_DELAY]
    /\ obs' = [obs EXCEPT !.rate_waits = @ + 1]
    /\ pc' = "fetch_call"
    /\ UNCHANGED <<UPDATE_INTERVAL, redis_client, cache, stats, pureVars>>

\* how an observer classifies the answer of the source
RespClass(resp) ==
    IF resp.err THEN "error"
    ELSE CASE validate_api_response(resp.body) = "ok" -> "ok"
           [] validate_api_response(resp.body) = "invalid" -> "rejected"
           [] OTHER -> "malformed"

\* keeps the snapshot for an hour
set_cache_hour(raw, d, writeOk) ==
    IF redis_client = "client" /\ writeOk
    THEN [present |-> TRUE, ttl |-> PRICE_TTL, v |-> JsonDumps(d)]
    ELSE raw

\* set_cache(cache_key, json.dumps(data), 300): nothing without a client or
\* when the write raises
set_cache(raw, d, writeOk) ==
    IF redis_client = "client" /\ writeOk
    THEN [present |-> TRUE, ttl |-> RAW_TTL, v |-> JsonDumps(d)]
    ELSE raw

\* one pass of the retry loop: GET, raise_for_status, json, validate, cache
FetchCall ==
    /\ pc = "fetch_call"
    /\ loc.all_calls < MaxCalls
    /\ \E resp \in Responses, writeOk \in BOOLEAN :
         LET o == obs.calls + 1
             seen == [obs EXCEPT !.calls = o, !.resp_log[RespClass(resp)] = @ + 1]
         IN  CASE AttemptOutcome(resp) = "ok" ->
                    /\ cache' = [cache EXCEPT !.raw = set_cache(@, resp.body.items, writeOk)]
                    /\ stats' = RecordSuccess(stats)
                    /\ loc' = [loc EXCEPT !.data = resp.body.items, !.all_calls = @ + 1]
                    /\ obs' = [seen EXCEPT !.fetch_outcome = "remote",
                                           !.last_body = resp.body.items]
                    /\ pc' = "fetched"
               [] AttemptOutcome(resp) = "retryable" ->
                    /\ cache' = cache
                    /\ stats' = RecordFailure(stats)
                    /\ IF LastAttempt(loc.attempt)
                       THEN /\ loc' = RaisedLoc([loc EXCEPT !.all_calls = @ + 1])
                            /\ obs' = [seen EXCEPT !.fetch_outcome = "raised",
                                                   !.cycle_result = "fatal"]
                            /\ pc' = RaisedPc
                       ELSE /\ loc' = [loc EXCEPT !.sleep = BackoffDelay(loc.attempt),
                                                  !.all_calls = @ + 1]
                            /\ obs' = seen
                            /\ pc' = "fetch_backoff"
               [] OTHER ->
                    /\ cache' = cache
                    /\ stats' = stats
                    /\ loc' = RaisedLoc([loc EXCEPT !.all_calls = @ + 1])
                    /\ obs' = [seen EXCEPT !.fetch_outcome = "raised",
                                           !.cycle_result = "fatal"]
                    /\ pc' = RaisedPc
    /\ UNCHANGED <<UPDATE_INTERVAL, redis_client, pureVars>>

\* starts the next attempt without the rate-limit wait
FetchBackoff_nowait ==
    /\ pc = "fetch_backoff"
    /\ IF loc.attempt + 1 < MAX_RETRIES
       THEN /\ loc' = [loc EXCEPT !.attempt = @ + 1]
            /\ obs' = obs
            /\ pc' = "fetch_call"
       ELSE /\ loc' = [loc EXCEPT !.data = <<>>]
            /\ obs' = [obs EXCEPT !.fetch_outcome = "returned_none"]
            /\ pc' = "fetched"
    /\ UNCHANGED <<UPDATE_INTERVAL, redis_client, cache, stats, pureVars>>

\* the backoff sleep is over: next pass of `for attempt in range(MAX_RETRIES)`;
\* a loop that runs out returns None
FetchBackoff ==
    /\ pc = "fetch_backoff"
    /\ IF loc.attempt + 1 < MAX_RETRIES
       THEN /\ loc' = [loc EXCEPT !.attempt = @ + 1]
            /\ obs' = obs
            /\ pc' = "fetch_wait"
       ELSE /\ loc' = [loc EXCEPT !.data = <<>>]
            /\ obs' = [obs EXCEPT !.fetch_outcome = "returned_none"]
            /\ pc' = "fetched"
    /\ UNCHANGED <<UPDATE_INTERVAL, redis_client, cache, stats, pureVars>>

\* run_update after fetch_crypto_data returned: `if not data: return`
AfterFetch ==
    /\ pc = "fetched"
    /\ IF loc.data = <<>>
       THEN /\ obs' = [obs EXCEPT !.cycle_result = "noop", !.resp_log = NoLog,
                                  !.last_body = <<>>, !.read_failed = FALSE]
            /\ pc' = ReturnedPc
       ELSE /\ obs' = [obs EXCEPT !.phase = "Transform", !.resp_log = NoLog,
                                  !.last_body = <<>>, !.read_failed = FALSE]
            /\ pc' = "transform"
    /\ UNCHANGED <<UPDATE_INTERVAL, redis_client, cache, stats, loc, pureVars>>

\* run_update: transform_data, the check of its result, and the entry of
\* update_database
Transform ==
    /\ pc = "transform"
    /\ LET r == transform_data(loc.data)
       IN  IF r.raised
           THEN /\ loc' = RaisedLoc(loc)
                /\ obs' = [obs EXCEPT !.cycle_result = "fatal"]
                /\ pc' = RaisedPc
           ELSE IF r.out = <<>>
           THEN /\ loc' = loc
                /\ obs' = [obs EXCEPT !.cycle_result = "noop"]
                /\ pc' = ReturnedPc
           ELSE /\ loc' = [loc EXCEPT !.transformed_data = r.out, !.i = 0,
                                      !.success_count = 0, !.failed_count = 0]
                /\ obs' = [obs EXCEPT !.phase = "Load", !.entered_load = TRUE]
                /\ pc' = "load_batch"
    /\ UNCHANGED <<UPDATE_INTERVAL, redis_client, cache, stats, pureVars>>

\* the for loop of update_database moves on from the batch at loc.i: the
\* next batch, or the end of the load (the counters are added to self.stats
\* and run_update calls update_market_stats)
LoopNext(l) ==
    IF HasNextBatch(l.i, Len(l.transformed_data))
    THEN /\ loc' = [l EXCEPT !.i = @ + batch_size]
         /\ stats' = stats
         /\ obs' = obs
         /\ pc' = "load_batch"
    ELSE /\ loc' = l
         /\ stats' = [stats EXCEPT !.total_records_processed = @ + l.success_count,
                                   !.failed_requests = @ + l.failed_count]
         /\ obs' = [obs EXCEPT !.phase = "Stats"]
         /\ pc' = "stats"

\* _store_in_redis returned ok for the batch at loc.i: count it, then sleep
\* 0.1 s unless it was the last batch
BatchDone(ok, l0) ==
    LET n == Len(BatchOf(loc.transformed_data, loc.i))
        l == IF ok THEN [l0 EXCEPT !.success_count = @ + n]
                   ELSE [l0 EXCEPT !.failed_count = @ + n]
        seen == [obs EXCEPT !.batches = Append(@, [size |-> n, ok |-> ok])]
    IN  IF BatchNum(loc.i) < TotalBatches(Len(loc.transformed_data))
        THEN /\ loc' = [l EXCEPT !.sleep = BATCH_PAUSE]
             /\ stats' = stats
             /\ obs' = seen
             /\ pc' = "load_pause"
        ELSE IF HasNextBatch(l.i, Len(l.transformed_data))
        THEN /\ loc' = [l EXCEPT !.i = @ + batch_size]
             /\ stats' = stats
             /\ obs' = seen
             /\ pc' = "load_batch"
        ELSE /\ loc' = l
             /\ stats' = [stats EXCEPT !.total_records_processed = @ + l.success_count,
                                       !.failed_requests = @ + l.failed_count]
             /\ obs' = [seen EXCEPT !.phase = "Stats"]
             /\ pc' = "stats"

\* update_database, one batch: build redis_data and call _store_in_redis,
\* which returns False at once when there is no client
LoadBatch ==
    /\ pc = "load_batch"
    /\ IF redis_client = "None"
       THEN BatchDone(FALSE, loc)
       ELSE /\ loc' = [loc EXCEPT !.store_attempt = 0]
            /\ pc' = "store_attempt"
            /\ UNCHANGED <<stats, obs>>
    /\ UNCHANGED <<UPDATE_INTERVAL, redis_client, cache, pureVars>>

\* what one MULTI ... EXEC round trip can do: "ok" the server ran the
\* transaction and the reply arrived; "refused" the commands never ran (no
\* connection, EXEC not reached); "unacked" the server ran the transaction
\* but pipe.execute() raised (the reply was lost)
ExecResults == {"ok", "refused", "unacked"}

\* _store_in_redis, one attempt: the pipeline is executed as a transaction
StoreAttempt ==
    /\ pc = "store_attempt"
    /\ loc.all_writes < MaxWrites
    /\ \E res \in ExecResults :
         LET rdata == RedisData(BatchOf(loc.transformed_data, loc.i), T_LOAD)
         IN  /\ cache' = IF res = "refused" THEN cache
                         ELSE [cache EXCEPT !.store = PipelineExecute(@, rdata)]
             /\ IF res = "ok"
                THEN BatchDone(TRUE, [loc EXCEPT !.all_writes = @ + 1])
                ELSE IF LastStoreAttempt(loc.store_attempt)
                THEN BatchDone(FALSE, [loc EXCEPT !.all_writes = @ + 1])
                ELSE /\ loc' = [loc EXCEPT !.sleep = StoreDelay(loc.store_attempt),
                                           !.all_writes = @ + 1]
                     /\ pc' = "store_backoff"
                     /\ UNCHANGED <<stats, obs>>
    /\ UNCHANGED <<UPDATE_INTERVAL, redis_client, pureVars>>

\* gives the batch up after a failed attempt and starts the write of the
\* next batch while the outcome of this one is open
StoreBackoff_skip ==
    /\ pc = "store_backoff"
    /\ IF HasNextBatch(loc.i, Len(loc.transformed_data))
       THEN /\ loc' = [loc EXCEPT !.i = @ + batch_size, !.store_attempt = 0]
            /\ pc' = "store_attempt"
            /\ UNCHANGED <<stats, obs>>
       ELSE BatchDone(FALSE, loc)
    /\ UNCHANGED <<UPDATE_INTERVAL, redis_client, cache, pureVars>>

\* the backoff sleep of _store_in_redis is over
StoreBackoff ==
    /\ pc = "store_backoff"
    /\ IF loc.store_attempt + 1 < max_retries
       THEN /\ loc' = [loc EXCEPT !.store_attempt = @ + 1]
            /\ pc' = "store_attempt"
            /\ UNCHANGED <<stats, obs>>
       ELSE BatchDone(FALSE, loc)
    /\ UNCHANGED <<UPDATE_INTERVAL, redis_client, cache, pureVars>>

\* the 0.1 s pause between batches is over
LoadPause ==
    /\ pc = "load_pause"
    /\ LoopNext(loc)
    /\ UNCHANGED <<UPDATE_INTERVAL, redis_client, cache, pureVars>>

\* update_market_stats: its first statement reads the global name
\* supabase_client, which the module never defines: NameError, raised
\* outside the try block, caught and re-raised by run_update
UpdateMarketStats ==
    /\ pc = "stats"
    /\ loc' = RaisedLoc(loc)
    /\ obs' = [obs EXCEPT !.cycle_result = "fatal"]
    /\ pc' = RaisedPc
    /\ UNCHANGED <<UPDATE_INTERVAL, redis_client, cache, stats, pureVars>>

\* subtracts without the floor at zero
SleepTime_unclamped(cycle_time) == UPDATE_INTERVAL - cycle_time

\* sleep_time = max(0, UPDATE_INTERVAL - cycle_time)
SleepTime(cycle_time) == Max(0, UPDATE_INTERVAL - cycle_time)

\* run_continuous after run_update returned: sleep max(0, interval - elapsed)
\* (cycle_time and sleep_time are dead at the top of the loop, where
\* StartCycle clears them)
CycleEnd ==
    /\ pc = "cycle_end"
    /\ \E cycle_time \in CycleTimes :
         LET sleep_time == SleepTime(cycle_time)
             l == [loc EXCEPT !.cycle_time = cycle_time, !.sleep_time = sleep_time]
         IN  IF sleep_time > 0
             THEN /\ loc' = [l EXCEPT !.sleep = sleep_time * 10]
                  /\ pc' = "cycle_sleep"
             ELSE /\ loc' = [l EXCEPT !.sleep = 0]
                  /\ pc' = "loop_top"
    /\ UNCHANGED <<UPDATE_INTERVAL, redis_client, cache, stats, obs, pureVars>>

\* the sleep between two cycles is over
CycleSleep ==
    /\ pc = "cycle_sleep"
    /\ pc' = "loop_top"
    /\ UNCHANGED <<UPDATE_INTERVAL, redis_client, cache, stats, loc, obs, pureVars>>

\* the RETRY_DELAY sleep after a cycle that raised is over
ErrorSleep ==
    /\ pc = "error_sleep"
    /\ pc' = "loop_top"
    /\ UNCHANGED <<UPDATE_INTERVAL, redis_client, cache, stats, loc, obs, pureVars>>

\* main's finally clause: updater.close()
Close ==
    /\ pc = "closing"
    /\ loc' = [loc EXCEPT !.closed = TRUE]
    /\ pc' = "exited"
    /\ UNCHANGED <<UPDATE_INTERVAL, redis_client, cache, stats, obs, pureVars>>

\* the frames of run_continuous, run_update and their callees are gone:
\* what is left of loc is what main and the process keep
Unwound(l) ==
    [InitLoc EXCEPT !.cycle_count = l.cycle_count, !.exit_code = l.exit_code,
                    !.handles = l.handles, !.closed = l.closed,
                    !.all_calls = l.all_calls, !.all_writes = l.all_writes]

\* the places where the process is suspended in an await inside main's try
AwaitPoints ==
    {"rc_init", "fetch_cache", "fetch_wait", "fetch_call", "fetch_backoff",
     "store_attempt", "store_backoff", "load_pause", "cycle_sleep", "error_sleep"}

\* the loop swallows the cancellation and goes to its next iteration
Cancel_resume ==
    /\ pc \in AwaitPoints \cup {"main"}
    /\ pc' = IF pc = "main" THEN "exited" ELSE "loop_top"
    /\ loc' = Unwound(loc)
    /\ obs' = [InitObs EXCEPT
                  !.cancelled = TRUE,
                  !.cycle_result = IF obs.cycle_result = "running" THEN "cancelled"
                                   ELSE obs.cycle_result,
                  !.phase = obs.phase, !.stats0 = obs.stats0, !.store0 = obs.store0]
    /\ UNCHANGED <<UPDATE_INTERVAL, redis_client, cache, stats, pureVars>>

\* the task is cancelled (Ctrl+C): CancelledError leaves the loop, main closes.
\* At pc = "main" the task is suspended in `await updater.init_redis()`, which
\* main calls before its try statement: the error leaves main at once and
\* the finally clause is not run
Cancel ==
    /\ pc \in AwaitPoints \cup {"main"}
    /\ pc' = IF pc = "main" THEN "exited" ELSE "closing"
    /\ loc' = Unwound(loc)
    /\ obs' = [InitObs EXCEPT
                  !.cancelled = TRUE,
                  !.cycle_result = IF obs.cycle_result = "running" THEN "cancelled"
                                   ELSE obs.cycle_result,
                  !.phase = obs.phase, !.stats0 = obs.stats0, !.store0 = obs.store0]
    /\ UNCHANGED <<UPDATE_INTERVAL, redis_client, cache, stats, pureVars>>

\* Redis drops the raw snapshot when its expiry has passed (the key is read
\* only by the lookup of fetch_crypto_data, so the expiry is taken there)
ExpireRaw ==
    /\ pc = "fetch_cache"
    /\ cache.raw.present
    /\ cache' = [cache EXCEPT !.raw = NoRaw]
    /\ UNCHANGED <<UPDATE_INTERVAL, pc, redis_client, stats, loc, obs, pureVars>>

Step ==
    \/ Main
    \/ RunContinuousInit
    \/ StartCycle
    \/ FetchCheckCache
    \/ FetchRateLimit
    \/ FetchCall
    \/ FetchBackoff
    \/ AfterFetch
    \/ Transform
    \/ LoadBatch
    \/ StoreAttempt
    \/ StoreBackoff
    \/ LoadPause
    \/ UpdateMarketStats
    \/ CycleEnd
    \/ CycleSleep
    \/ ErrorSleep
    \/ Close

Next == Step \/ Cancel \/ ExpireRaw

Spec == Init /\ [][Next]_vars

\* the event loop resumes the task of run_continuous when a sleep of the
\* loop is over, and the loop body runs on from there
FairSpec ==
    /\ Spec
    /\ WF_vars(CycleEnd)
    /\ WF_vars(CycleSleep)
    /\ WF_vars(ErrorSleep)
    /\ WF_vars(StartCycle)

\* ------------------------------------------------ market statistics (try body)
\* item.get('market_cap', 0) > bound: [exc, v]; None > 0 and 'x' > 0 raise
\* TypeError
GreaterThan(v, bound) ==
    CASE v.k \in {"num", "flt"} -> [exc |-> FALSE, v |-> v.n > bound]
      [] v.k = "big" -> [exc |-> FALSE, v |-> TRUE]
      [] OTHER -> [exc |-> TRUE, v |-> FALSE]

\* sum(item.get(f, 0) for item in data if item.get(f)): [exc, v]
RECURSIVE SumTruthy(_, _, _)
SumTruthy(d, f, j) ==
    IF j = 0 THEN [exc |-> FALSE, v |-> 0]
    ELSE LET rest == SumTruthy(d, f, j - 1)
             x == Get(d[j], f)
         IN  IF d[j].py # "dict" THEN [exc |-> TRUE, v |-> 0]
             ELSE IF ~Truthy(x) THEN rest
             ELSE IF x.k \in {"num", "flt"} THEN [exc |-> rest.exc, v |-> rest.v + x.n]
             ELSE [exc |-> TRUE, v |-> 0]

\* len([item for item in data if item.get('market_cap', 0) > bound]): [exc, v]
CountAbove(d, bound) ==
    LET c(j) == GreaterThan(GetD(d[j], "market_cap", Num(0)), bound)
    IN  [exc |-> \E j \in 1..Len(d) : d[j].py # "dict" \/ c(j).exc,
         v |-> Cardinality({j \in 1..Len(d) : d[j].py = "dict" /\ c(j).v})]

\* the tier thresholds 10000000000 and 1000000000; the amounts of the model
\* are in units of 10 million USD
LARGE_CAP == 1000

MID_CAP == 100

\* the records of the list whose market_cap (0 when missing) is a number
\* (after CountAbove(d, 0) has not raised, every value is one, or an integer
\* beyond the float range)
CapNumbers(d) ==
    {j \in 1..Len(d) :
        /\ d[j].py = "dict"
        /\ GetD(d[j], "market_cap", Num(0)).k \in {"num", "flt"}}

\* market_cap_distribution: large_cap > 10 bn, 1 bn < mid_cap <= 10 bn,
\* small_cap <= 1 bn (a missing market_cap counts as 0)
market_cap_distribution(d) ==
    LET cap(j) == GetD(d[j], "market_cap", Num(0)).n
    IN  [large_cap |-> CountAbove(d, LARGE_CAP).v,
         mid_cap |-> Cardinality({j \in CapNumbers(d) :
                                    MID_CAP < cap(j) /\ cap(j) <= LARGE_CAP}),
         small_cap |-> Cardinality({j \in CapNumbers(d) : cap(j) <= MID_CAP})]

\* the statistics update_market_stats computes from the raw records:
\* [exc, market_stats]; exc = TRUE is an exception raised inside the try
\* block, which logs it and stores nothing
ComputeMarketStats(d) ==
    LET total_market_cap == SumTruthy(d, "market_cap", Len(d))
        total_volume_24h == SumTruthy(d, "total_volume", Len(d))
        active_cryptocurrencies == CountAbove(d, 0)
    IN  [exc |-> total_market_cap.exc \/ total_volume_24h.exc
                    \/ active_cryptocurrencies.exc,
         market_stats |->
            [active_cryptocurrencies |-> active_cryptocurrencies.v,
             total_market_cap_usd |-> total_market_cap.v,
             total_volume_usd_24h |-> total_volume_24h.v,
             market_cap_percentage |-> market_cap_distribution(d),
             markets |-> 1]]

\* ------------------------------------------------------ pure-function runs
\* raw elements that exercise every branch of the transformation
big_cap == Coin(Str("shib"), Str("shib"), Str("Shiba"), Num(1), Big, Num(3))

text_price == Coin(Str("ltc"), Str("ltc"), Str("Litecoin"), Str("abc"), Num(70), Str("7"))

\* a record whose price, market cap and volume are negative numbers
neg_price == Coin(Str("neg"), Str("neg"), Str("Negative"), Num(-5), Num(-1), Num(-2))

TransformItems ==
    {btc, eth, ada_null_price, doge_null_cap, no_symbol, big_cap, text_price,
     neg_price, NotADict("int")}

\* all sequences over S of length at most n
SeqsUpTo(S, n) == UNION {[1..m -> S] : m \in 0..n}

TransformInit ==
    /\ ProcInit
    /\ t_in \in SeqsUpTo(TransformItems, MaxLen)
    /\ t_out = <<>>
    /\ t_pc = "ready"

\* a call of transform_data on the drawn raw list
TransformRun ==
    /\ t_pc = "ready"
    /\ t_out' = transform_data(t_in)
    /\ t_pc' = "done"
    /\ UNCHANGED <<t_in, procVars>>

SpecTransform == TransformInit /\ [][TransformRun]_vars

no_cap == Coin(Str("xmr"), Str("xmr"), Str("Monero"), Num(150), Abs, Abs)

zero_cap == Coin(Str("zec"), Str("zec"), Str("Zcash"), Num(30), Num(0), Num(0))

\* a record above the large-cap threshold and one between the thresholds
large_coin == Coin(Str("tether"), Str("usdt"), Str("Tether"), Num(1), Num(5000), Num(90))

mid_coin == Coin(Str("solana"), Str("sol"), Str("Solana"), Num(20), Num(1000), Num(9))

StatsItems ==
    {btc, eth, ada_null_price, doge_null_cap, no_cap, zero_cap, large_coin, mid_coin}

StatsInit ==
    /\ ProcInit
    /\ t_in \in SeqsUpTo(StatsItems, MaxLen)
    /\ t_out = <<>>
    /\ t_pc = "ready"

\* the try block of update_market_stats on the drawn raw list
StatsRun ==
    /\ t_pc = "ready"
    /\ t_out' = ComputeMarketStats(t_in)
    /\ t_pc' = "done"
    /\ UNCHANGED <<t_in, procVars>>

SpecStats == StatsInit /\ [][StatsRun]_vars

\* the id is the empty string: accepted by the transformation, skipped by
\* the load
empty_id == Coin(Str(""), Str("nil"), Str("Nameless"), Num(9), Num(9), Num(9))

LoadItems == {btc, eth, doge_null_cap, text_price, empty_id}

\* update_database(data) at time `now` when every pipeline is executed: the
\* store after the batches from offset i on
RECURSIVE LoadFrom(_, _, _, _)
LoadFrom(store, data, i, now) ==
    IF i >= Len(data) THEN store
    ELSE LoadFrom(PipelineExecute(store, RedisData(BatchOf(data, i), now)),
                  data, i + batch_size, now)

LoadInit ==
    /\ ProcInit
    /\ t_in \in {transform_data(r).out : r \in SeqsUpTo(LoadItems, MaxLen)}
    /\ t_out = [once |-> << >>, twice |-> << >>]
    /\ t_pc = "ready"

\* update_database on the drawn snapshots, on an empty store
LoadOnce ==
    /\ t_pc = "ready"
    /\ t_out' = [t_out EXCEPT !.once = LoadFrom(<< >>, t_in, 0, "t_load_1")]
    /\ t_pc' = "once"
    /\ UNCHANGED <<t_in, procVars>>

\* a later update_database on the same snapshots
LoadTwice ==
    /\ t_pc = "once"
    /\ t_out' = [t_out EXCEPT !.twice = LoadFrom(t_out.once, t_in, 0, "t_load_2")]
    /\ t_pc' = "twice"
    /\ UNCHANGED <<t_in, procVars>>

SpecLoad == LoadInit /\ [][LoadOnce \/ LoadTwice]_vars

\* the fields _calculate_quality_score looks at
CheckedFields == {checks[i].field : i \in 1..Len(checks)}

\* what a checked field of a raw record can hold: missing, null, a falsy or
\* a truthy value
FieldValues(f) ==
    IF f = "image" THEN {Abs, Null, Str(""), Str("http://img")}
    ELSE {Abs, Null, Num(0), Num(7)}

ScoreItems ==
    {[f \in DOMAIN btc |-> IF f \in CheckedFields THEN c[f] ELSE btc[f]] :
        c \in {g \in [CheckedFields -> {Abs, Null, Num(0), Num(7), Str(""), Str("http://img")}] :
                  \A f \in CheckedFields : g[f] \in FieldValues(f)}}

ScoreInit ==
    /\ ProcInit
    /\ t_in \in ScoreItems
    /\ t_out = [score |-> 0]
    /\ t_pc = "ready"

\* a call of _calculate_quality_score on the drawn raw record
ScoreRun ==
    /\ t_pc = "ready"
    /\ t_out' = [score |-> _calculate_quality_score(t_in)]
    /\ t_pc' = "done"
    /\ UNCHANGED <<t_in, procVars>>

SpecScore == ScoreInit /\ [][ScoreRun]_vars

\* the arguments of the numeric helpers: null, empty, text, numerals with
\* and without a decimal point, numbers, and an integer beyond the floats
ParseValues ==
    {Null, Str(""), Str("abc"), Str("."), Str("7"), Str("-5"), Str("123.0"), Big}
        \cup {Num(n) : n \in -2..2} \cup {Flt(n) : n \in -2..2}

ParseInit ==
    /\ ProcInit
    /\ t_in \in [value : ParseValues, default : {0, -1}]
    /\ t_out = << >>
    /\ t_pc = "ready"

\* safe_float(value, default) and safe_int(value, default)
ParseRun ==
    /\ t_pc = "ready"
    /\ t_out' = [f |-> safe_float(t_in.value, t_in.default),
                 i |-> safe_int(t_in.value, t_in.default)]
    /\ t_pc' = "done"
    /\ UNCHANGED <<t_in, procVars>>

SpecParse == ParseInit /\ [][ParseRun]_vars

\* ------------------------------------------------------------------ claims
OnlyErrors(k) == [error |-> k, rejected |-> 0, malformed |-> 0, ok |-> 0]

ErrorsThenOk(k) == [error |-> k, rejected |-> 0, malformed |-> 0, ok |-> 1]

\* ---------------------------------------------- the market_stats table
\* raw lists run_update passes to update_market_stats (never empty)
TableItems == {btc, doge_null_cap}

\* the run starts with an empty table; t_in is the cycle that ran last
TableInit ==
    /\ ProcInit
    /\ t_in = [cycle |-> 0, data |-> <<>>, wrote |-> FALSE]
    /\ t_out = <<>>
    /\ t_pc = "table"

\* the try body of update_market_stats in one cycle: the statistics are
\* computed from the raw list and inserted as a new row of 'market_stats';
\* an exception of the computation or of the insert is logged and nothing is
\* stored
TableCycle ==
    /\ t_pc = "table"
    /\ t_in.cycle < MaxCycles
    /\ \E d \in SeqsUpTo(TableItems, MaxLen) \ {<<>>}, ok \in BOOLEAN :
         LET r == ComputeMarketStats(d)
             wrote == ~r.exc /\ ok
             row == [timestamp |-> t_in.cycle + 1, market_stats |-> r.market_stats]
         IN  /\ t_in' = [cycle |-> t_in.cycle + 1, data |-> d, wrote |-> wrote]
             /\ t_out' = IF wrote THEN Append(t_out, row) ELSE t_out
    /\ UNCHANGED <<t_pc, procVars>>

SpecTable == TableInit /\ [][TableCycle]_vars

\* ------------------------------------------- the market statistics endpoint
\* a row of the table "cryptocurrencies" as get_market_stats selects it
Row(symbol, cap) == [symbol |-> symbol, market_cap |-> cap]

DomRows ==
    {Row("BTC", Num(900)), Row("ETH", Num(400)), Row("USDT", Num(5000)),
     Row("SOL", Num(1000)), Row("BTC", Null)}

\* sum(item["market_cap"] for item in data if item["market_cap"] is not None)
RECURSIVE SumCaps(_)
SumCaps(rows) ==
    IF rows = <<>> THEN 0
    ELSE (IF Head(rows).market_cap.k = "null" THEN 0 ELSE Head(rows).market_cap.n)
         + SumCaps(Tail(rows))

\* result.data[0]["market_cap"] if result.data else 0, for .eq("symbol", sym)
FirstCap(rows, sym) ==
    LET hits == SelectSeq(rows, LAMBDA r : r.symbol = sym)
    IN  IF hits = <<>> THEN Num(0) ELSE hits[1].market_cap

\* round(cap / total * 100, 2), in hundredths of a percent (ties to even)
RoundPct(cap, total) ==
    LET q == (cap * 10000) \div total
        r == (cap * 10000) % total
    IN  IF 2 * r > total \/ (2 * r = total /\ q % 2 = 1) THEN q + 1 ELSE q

\* (cap / total * 100) if total > 0 else 0: [exc, v]; None / total raises
\* TypeError
Dominance(cap, total) ==
    IF total > 0
    THEN IF cap.k = "null" THEN [exc |-> TRUE, v |-> 0]
         ELSE [exc |-> FALSE, v |-> RoundPct(cap.n, total)]
    ELSE [exc |-> FALSE, v |-> 0]

\* get_market_stats, the branch that computes the statistics from the table
get_market_stats(rows) ==
    LET total_market_cap == SumCaps(rows)
        btc_dominance == Dominance(FirstCap(rows, "BTC"), total_market_cap)
        eth_dominance == Dominance(FirstCap(rows, "ETH"), total_market_cap)
    IN  [exc |-> btc_dominance.exc \/ eth_dominance.exc,
         total_market_cap |-> total_market_cap,
         btc_dominance |-> btc_dominance.v,
         eth_dominance |-> eth_dominance.v]

DomInit ==
    /\ ProcInit
    /\ t_in \in SeqsUpTo(DomRows, MaxLen)
    /\ t_out = <<>>
    /\ t_pc = "ready"

\* a request to /market/stats with the drawn table
DomRun ==
    /\ t_pc = "ready"
    /\ t_out' = get_market_stats(t_in)
    /\ t_pc' = "done"
    /\ UNCHANGED <<t_in, procVars>>

SpecDominance == DomInit /\ [][DomRun]_vars

\* update_database(data) from offset i on, where res[b] is what the write of
\* batch b came to ("ok": _store_in_redis returned True; "refused": False,
\* nothing written; "unacked": False, the transaction ran): the store and
\* the two counters
RECURSIVE LoadCount(_, _, _, _)
LoadCount(acc, data, i, res) ==
    IF i >= Len(data) THEN acc
    ELSE LET batch == BatchOf(data, i)
             r == res[BatchNum(i)]
         IN  LoadCount(
                 [store |-> IF r = "refused" THEN acc.store
                            ELSE PipelineExecute(acc.store, RedisData(batch, T_LOAD)),
                  success_count |-> acc.success_count + (IF r = "ok" THEN Len(batch) ELSE 0),
                  failed_count |-> acc.failed_count + (IF r = "ok" THEN 0 ELSE Len(batch))],
                 data, i + batch_size, res)

CountInit ==
    /\ ProcInit
    /\ t_in \in {[data |-> transform_data(r).out, res |-> o] :
                    r \in SeqsUpTo(LoadItems, MaxLen),
                    o \in [1..TotalBatches(MaxLen) -> ExecResults]}
    /\ t_out = [store |-> << >>, success_count |-> 0, failed_count |-> 0]
    /\ t_pc = "ready"

\* update_database on the drawn snapshots, on an empty store
CountRun ==
    /\ t_pc = "ready"
    /\ t_out' = LoadCount(t_out, t_in.data, 0, t_in.res)
    /\ t_pc' = "done"
    /\ UNCHANGED <<t_in, procVars>>

SpecCount == CountInit /\ [][CountRun]_vars

\* ------------------------------------------------ the loop against the clock
\* Times are in tenths of a second.  t_out is [now, expires, cycle_start,
\* cycle, served]: the clock, the instant at which Redis drops the key
\* "crypto_data_latest" (0: no key), datetime.utcnow() at the top of the
\* cycle, cycle_count, and where the extraction of the cycle got its data.

\* how long the GET and the rest of a cycle (transformation, load) can take
RequestTimes == {1, 20}

RestTimes == {0, 10, 3100}

ClockInit ==
    /\ UPDATE_INTERVAL \in {300, 600}
    /\ pc = "loop_top"
    /\ redis_client = "client"
    /\ cache = [raw |-> NoRaw, store |-> << >>]
    /\ stats = InitStats
    /\ loc = InitLoc
    /\ obs = InitObs
    /\ t_in = <<>>
    /\ t_out = [now |-> 0, expires |-> 0, cycle_start |-> 0, cycle |-> 0,
                served |-> "none"]
    /\ t_pc = "loop_top"

\* cycle_count += 1; cycle_start = datetime.utcnow(); run_update()
ClockStartCycle ==
    /\ t_pc = "loop_top"
    /\ t_out.cycle < MaxCycles + 1
    /\ t_out' = [t_out EXCEPT !.cycle = @ + 1, !.cycle_start = t_out.now,
                              !.served = "none"]
    /\ t_pc' = "lookup"
    /\ UNCHANGED <<t_in, procVars>>

\* fetch_crypto_data: the key is there until its expiry; on a miss
\* check_rate_limit sleeps RATE_LIMIT_DELAY before the request
ClockLookup ==
    /\ t_pc = "lookup"
    /\ IF t_out.now < t_out.expires
       THEN /\ t_out' = [t_out EXCEPT !.served = "cache"]
            /\ t_pc' = "rest"
       ELSE /\ t_out' = [t_out EXCEPT !.now = @ + RATE_LIMIT_DELAY]
            /\ t_pc' = "request"
    /\ UNCHANGED <<t_in, procVars>>

\* the GET answers with a valid list: set_cache(cache_key, ..., 300)
ClockRequest ==
    /\ t_pc = "request"
    /\ \E dur \in RequestTimes :
         t_out' = [t_out EXCEPT !.now = @ + dur,
                                !.expires = t_out.now + dur + RAW_TTL * 10,
                                !.served = "remote"]
    /\ t_pc' = "rest"
    /\ UNCHANGED <<t_in, procVars>>

\* the rest of run_update, then run_continuous: after a normal return it
\* sleeps max(0, UPDATE_INTERVAL - cycle_time), after an exception RETRY_DELAY
ClockRest ==
    /\ t_pc = "rest"
    /\ \E dur \in RestTimes, raised \in BOOLEAN :
         LET end == t_out.now + dur
             cycle_time == end - t_out.cycle_start
             sleep_time == Max(0, UPDATE_INTERVAL * 10 - cycle_time)
         IN  t_out' = [t_out EXCEPT !.now =
                          IF raised THEN end + RETRY_DELAY * 10
                          ELSE end + sleep_time]
    /\ t_pc' = "loop_top"
    /\ UNCHANGED <<t_in, procVars>>

SpecClock == ClockInit /\ [][ClockStartCycle \/ ClockLookup \/ ClockRequest \/ ClockRest]_vars

\* C1: when the remote call raises k < MAX_RETRIES times and then answers
\* with a valid list, fetch_crypto_data returns that list after exactly k+1
\* remote calls, with k more failed requests and 1 more successful request;
\* and it never gives up while the source has failed fewer than MAX_RETRIES
\* calls.
C1_RetryCount ==
    /\ \A k \in 0..(MAX_RETRIES - 1) :
         obs.resp_log = ErrorsThenOk(k) =>
            /\ obs.fetch_outcome = "remote"
            /\ pc = "fetched"
            /\ loc.data = obs.last_body
            /\ obs.calls = k + 1
            /\ stats.failed_requests = obs.stats0.failed_requests + k
            /\ stats.successful_requests = obs.stats0.successful_requests + 1
    /\ (/\ obs.fetch_outcome \in {"raised", "returned_none"}
        /\ obs.resp_log.rejected = 0
        /\ obs.resp_log.malformed = 0
        /\ obs.resp_log.ok = 0
        /\ obs.phase = "Extract") => obs.resp_log.error >= MAX_RETRIES

\* C1 witness: three failed calls, then the fourth call succeeded
C1_Witness ==
    /\ obs.resp_log = ErrorsThenOk(3)
    /\ obs.fetch_outcome = "remote"
    /\ obs.calls = 4

C3_CacheHit ==
    [][(/\ pc = "fetch_cache"
        /\ pc' \in {"fetched", "fetch_wait"}
        /\ redis_client = "client"
        /\ cache.raw.present
        /\ ~obs'.read_failed)
       => /\ pc' = "fetched"
          /\ loc'.data = JsonLoads(cache.raw.v)
          /\ stats' = [stats EXCEPT !.cache_hits = @ + 1]
          /\ obs'.calls = 0
          /\ obs'.rate_waits = 0
          /\ loc'.sleep = 0
          /\ cache' = cache]_vars

\* C3 witness: the second cycle was served from the snapshot the first cached
C3_Witness ==
    /\ pc = "fetched"
    /\ obs.fetch_outcome = "hit"
    /\ loc.cycle_count = 2
    /\ stats.cache_hits = 1
    /\ Len(loc.data) > 0

\* the four required fields are present and not null
AllRequired(item) ==
    \A f \in {"id", "symbol", "name", "current_price"} : item[f].k \notin {"abs", "null"}

AllDicts(d) == \A j \in 1..Len(d) : d[j].py = "dict"

\* C4: for a list of raw records, transform_data outputs exactly the records
\* whose four required fields are present and non-null, in input order, and
\* records as many errors as there are records missing one of them.
C4_Claim ==
    (t_pc = "done" /\ AllDicts(t_in)) =>
        /\ ~t_out.raised
        /\ LET kept == SelectSeq(t_in, AllRequired)
           IN  t_out.out = [j \in 1..Len(kept) |-> TransformOne(kept[j])]
        /\ Len(t_out.errors) = Cardinality({j \in 1..Len(t_in) : ~AllRequired(t_in[j])})

\* C5: transform_data never raises because of one bad element, whatever its
\* shape: every element is either emitted or recorded as an error.
C5_Claim ==
    t_pc = "done" =>
        /\ ~t_out.raised
        /\ Len(t_out.out) + Len(t_out.errors) = Len(t_in)

RECURSIVE SumSizes(_, _)
SumSizes(bs, want) ==
    IF bs = <<>> THEN 0
    ELSE (IF Head(bs).ok \in want THEN Head(bs).size ELSE 0) + SumSizes(Tail(bs), want)

\* the sizes of ceil(n/B) consecutive batches: B, ..., B and the remainder
ExpectedSizes(n) ==
    [b \in 1..((n + batch_size - 1) \div batch_size) |->
        IF b * batch_size <= n THEN batch_size ELSE n - (b - 1) * batch_size]

CycleOver == obs.cycle_result \in {"fatal", "noop", "done"}

\* C6: the load attempts ceil(n/B) consecutive batches in order, a batch that
\* fails on every retry adds its size to the failed count and later batches
\* are still attempted, and the cycle completes without a fatal error.
C6_Claim ==
    (obs.entered_load /\ CycleOver) =>
        /\ [b \in 1..Len(obs.batches) |-> obs.batches[b].size]
              = ExpectedSizes(Len(loc.transformed_data))
        /\ loc.success_count = SumSizes(obs.batches, {TRUE})
        /\ loc.failed_count = SumSizes(obs.batches, {FALSE})
        /\ obs.cycle_result # "fatal"

PhaseEdges ==
    {<<"Idle", "Extract">>, <<"Extract", "Transform">>, <<"Transform", "Load">>,
     <<"Load", "Stats">>, <<"Stats", "Done">>}

\* C7: within a cycle the phase only moves along Extract, Transform, Load,
\* Stats, Done (a phase is left for Extract only by the start of a new
\* cycle); Stats starts only when every snapshot belongs to a finished batch;
\* and a cycle that entered Load and is over has entered Stats.
C7_PhaseOrder ==
    /\ [][obs'.phase # obs.phase =>
            \/ <<obs.phase, obs'.phase>> \in PhaseEdges
            \/ obs'.phase = "Extract" /\ loc'.cycle_count = loc.cycle_count + 1]_vars
    /\ [](obs.phase = "Stats" =>
            SumSizes(obs.batches, BOOLEAN) = Len(loc.transformed_data))
    /\ []((obs.entered_load /\ CycleOver) => obs.phase = "Stats")

\* C7 witness: Stats was entered after three batches, one of which failed
C7_Witness ==
    /\ obs.phase = "Stats"
    /\ pc = "stats"
    /\ Len(obs.batches) = 3
    /\ \E b \in 1..3 : ~obs.batches[b].ok

\* C8: a failure of the Stats phase is absorbed: the cycle that entered Stats
\* does not end with run_update raising.
C8_Claim == obs.phase = "Stats" => obs.cycle_result # "fatal"

RECURSIVE SumNonNull(_, _)
SumNonNull(d, f) ==
    IF d = <<>> THEN 0
    ELSE (IF Head(d)[f].k = "num" THEN Head(d)[f].n ELSE 0) + SumNonNull(Tail(d), f)

\* C9: for every raw record set, also with null or missing market_cap or
\* total_volume, the statistics are computed: total market cap and volume
\* are the sums of the non-null values, the active count is the number of
\* records with market_cap > 0.
C9_Claim ==
    t_pc = "done" =>
        /\ ~t_out.exc
        /\ t_out.market_stats.total_market_cap_usd = SumNonNull(t_in, "market_cap")
        /\ t_out.market_stats.total_volume_usd_24h = SumNonNull(t_in, "total_volume")
        /\ t_out.market_stats.active_cryptocurrencies =
              Cardinality({j \in 1..Len(t_in) :
                             t_in[j].market_cap.k = "num" /\ t_in[j].market_cap.n > 0})

\* C10: in continuous mode a cycle that raises leaves the loop running: it
\* sleeps RETRY_DELAY and, unless the task is cancelled, the next cycle
\* starts; the same holds after a cycle that returned.
C10_LoopGoesOn ==
    /\ [][(Continuous /\ obs.cycle_result = "running" /\ obs'.cycle_result = "fatal")
            => (pc' = "error_sleep" /\ loc'.sleep = RETRY_DELAY * 10)]_vars
    /\ (Continuous /\ CycleOver /\ loc.cycle_count < MaxCycles)
          ~> (obs.cycle_result = "running" \/ obs.cancelled)

\* C10 witness: a second cycle started after the first one raised
C10_Witness ==
    /\ Continuous
    /\ loc.cycle_count = 2
    /\ obs.prev_result = "fatal"
    /\ obs.cycle_result = "running"
    /\ ~obs.cancelled

\* the load region of the cycle was not entered and the price keys are as
\* they were when the cycle started
NothingLoaded ==
    /\ ~obs.entered_load
    /\ obs.phase \in {"Extract", "Transform"}
    /\ obs.batches = <<>>
    /\ cache.store = obs.store0
    /\ stats.total_records_processed = obs.stats0.total_records_processed

\* C11: when fetch_crypto_data returns an empty list, or transform_data
\* accepts no record, run_update returns to its caller without raising (the
\* loop goes to its interval sleep, a single run exits with code 0), and the
\* cycle writes no price key and never enters the Load or Stats phase.
C11_NoOpCycle ==
    /\ [][(\/ pc = "fetched" /\ loc.data = <<>>
           \/ /\ pc = "transform"
              /\ ~transform_data(loc.data).raised
              /\ transform_data(loc.data).out = <<>>)
          => /\ obs'.cycle_result = "noop"
             /\ pc' = (IF Continuous THEN "cycle_end" ELSE "closing")
             /\ loc'.exit_code = 0
             /\ cache' = cache]_vars
    /\ [](obs.cycle_result = "noop" =>
            /\ NothingLoaded
            /\ loc.exit_code = 0
            /\ pc \notin {"error_sleep", "load_batch", "store_attempt", "stats"})

\* C11 witness: the first cycle read an empty list from the raw key and the
\* second fetched a list of which no record was accepted; both were no-ops
C11_Witness ==
    /\ loc.cycle_count = 2
    /\ obs.prev_result = "noop"
    /\ stats.cache_hits = 1
    /\ obs.fetch_outcome = "remote"
    /\ obs.phase = "Transform"
    /\ obs.cycle_result = "noop"
    /\ pc = "cycle_end"

\* C12: when fetch_crypto_data raises, run_update raises to its caller (a
\* single run exits with code 1, the loop takes its error path and never its
\* interval sleep), and the cycle transforms nothing and writes no price key.
C12_ExtractFatal ==
    obs.fetch_outcome = "raised" =>
        /\ obs.cycle_result = "fatal"
        /\ obs.phase = "Extract"
        /\ loc.transformed_data = <<>>
        /\ NothingLoaded
        /\ ~Continuous => loc.exit_code = 1
        /\ Continuous => pc \in {"error_sleep", "loop_top", "closing", "exited"}

\* C12 witness: a single run whose first answer made the validation raise
\* TypeError has exited with code 1
C12_Witness ==
    /\ ~Continuous
    /\ obs.fetch_outcome = "raised"
    /\ obs.calls = 1
    /\ obs.resp_log.malformed = 1
    /\ loc.exit_code = 1
    /\ pc = "exited"

\* C13: update_database applied a second time to the same accepted snapshots
\* leaves the same 'crypto:price:<id>' keys with the same value under each
\* as the first application.
C13_LoadTwice ==
    t_pc = "twice" =>
        /\ DOMAIN t_out.twice = DOMAIN t_out.once
        /\ \A k \in DOMAIN t_out.once : t_out.twice[k].v = t_out.once[k].v

\* C13 witness: three snapshots, loaded twice in two batches, under at least
\* two keys
C13_Witness ==
    /\ t_pc = "twice"
    /\ Len(t_in) = 3
    /\ TotalBatches(Len(t_in)) = 2
    /\ Cardinality(DOMAIN t_out.twice) >= 2

\* the last snapshot of the list that is stored under key k
StoredFrom(data, k) ==
    LET J == {j \in 1..Len(data) : data[j].id # "" /\ PriceKey(data[j]) = k}
    IN  data[CHOOSE j \in J : \A j2 \in J : j2 <= j]

\* C14: after a load in which every batch was written, the value under each
\* key carries the price, the 24h volume, the image URL and the 24h change
\* (as a fraction) of the snapshot it was built from.
C14_Claim ==
    t_pc = "once" =>
        \A k \in DOMAIN t_out.once :
            LET snap == StoredFrom(t_in, k)
                v == t_out.once[k].v
            IN  /\ v.current_price = snap.price
                /\ v.total_volume = snap.volume_24h
                /\ v.image = snap.image_url
                /\ v.price_change_percentage_24h = snap.change_24h

\* C15: when run_update has returned, run_continuous computes the wait as
\* UPDATE_INTERVAL - cycle_time floored at zero, sleeps exactly that long
\* when it is positive and starts the next cycle at once when it is zero; no
\* sleep is ever negative; and every cycle that ends without raising takes
\* this path.
C15_IntervalSleep ==
    /\ [][pc = "cycle_end" =>
            /\ loc'.cycle_time \in CycleTimes
            /\ loc'.sleep_time = (IF loc'.cycle_time < UPDATE_INTERVAL
                                  THEN UPDATE_INTERVAL - loc'.cycle_time ELSE 0)
            /\ loc'.sleep = loc'.sleep_time * 10
            /\ pc' = (IF loc'.cycle_time >= UPDATE_INTERVAL
                      THEN "loop_top" ELSE "cycle_sleep")]_vars
    /\ [](loc.sleep_time >= 0 /\ loc.sleep >= 0)
    /\ [][(Continuous /\ obs.cycle_result = "running"
                      /\ obs'.cycle_result \in {"noop", "done"})
            => pc' = "cycle_end"]_vars
    /\ [][pc = "cycle_sleep" => pc' \in {"loop_top", "closing"}]_vars

\* C15 witness: a cycle that returned took 400 s, longer than the interval
\* of 300 s: no sleep, the loop is back at its top
C15_Witness ==
    /\ Continuous
    /\ obs.cycle_result = "noop"
    /\ loc.cycle_time = 400
    /\ loc.sleep_time = 0
    /\ loc.sleep = 0
    /\ pc = "loop_top"

\* the load loop has gone through every batch and the cycle is over
LoadOver ==
    /\ obs.entered_load
    /\ CycleOver
    /\ SumSizes(obs.batches, BOOLEAN) = Len(loc.transformed_data)

\* C16: a cycle whose load is over ends with a fatal error exactly when
\* every batch of the load failed.
C16_Claim ==
    LoadOver =>
        ((obs.cycle_result = "fatal") = (\A b \in 1..Len(obs.batches) : ~obs.batches[b].ok))

\* C17: every step that changes the price keys is one attempt of
\* _store_in_redis and sets every key of the batch to the value of that
\* attempt with the 3600 s expiry, leaving every other key as it was; so a
\* reader of any state sees all of an attempt's writes or none, also when
\* the attempt is reported as failed.
C17_AllOrNothing ==
    [][cache'.store # cache.store =>
         LET rdata == RedisData(BatchOf(loc.transformed_data, loc.i), T_LOAD)
         IN  /\ pc = "store_attempt"
             /\ \A k \in DOMAIN rdata :
                   /\ k \in DOMAIN cache'.store
                   /\ cache'.store[k] = [v |-> rdata[k], ttl |-> 3600]
             /\ \A k \in (DOMAIN cache'.store) \ (DOMAIN rdata) :
                   /\ k \in DOMAIN cache.store
                   /\ cache'.store[k] = cache.store[k]]_vars

\* C17 witness: the first attempt on the first batch was reported as failed
\* but the server had run the transaction: both keys of the batch are there
C17_Witness ==
    /\ pc = "store_backoff"
    /\ loc.cycle_count = 1
    /\ loc.i = 0
    /\ loc.store_attempt = 0
    /\ Cardinality(DOMAIN cache.store) = batch_size

\* C18: the quality score lies in 0..100, and removing or nulling any
\* checked field of a record never gives a higher score.
C18_ScoreMonotone ==
    t_pc = "done" =>
        /\ t_out.score \in 0..100
        /\ \A f \in CheckedFields : \A gone \in {Abs, Null} :
              _calculate_quality_score([t_in EXCEPT ![f] = gone]) <= t_out.score

\* C18 witness: a complete record scores 100 and 90 without its market_cap
C18_Witness ==
    /\ t_pc = "done"
    /\ t_out.score = 100
    /\ _calculate_quality_score([t_in EXCEPT !.market_cap = Abs]) = 90
    /\ _calculate_quality_score([t_in EXCEPT !.image = Null]) = 98

\* a numeral or a number
NumericLooking(v) ==
    \/ v.k \in {"num", "flt", "big"}
    \/ v.k = "str" /\ v.s \in {"7", "-5", "123.0"}

\* the number a numeric-looking value denotes (all are integer-valued)
NumberOf(v) ==
    CASE v.k \in {"num", "flt"} -> v.n
      [] v.s = "7" -> 7
      [] v.s = "-5" -> -5
      [] OTHER -> 123

\* C19: safe_float and safe_int never raise; for a numeric-looking argument
\* they return the number it denotes (also safe_int for an integer-valued
\* argument written with a decimal point); for a null, empty or non-numeric
\* argument they return the default.
C19_Claim ==
    t_pc = "done" =>
        /\ ~t_out.f.exc
        /\ ~t_out.i.exc
        /\ NumericLooking(t_in.value) =>
              /\ t_out.f.v = NumberOf(t_in.value)
              /\ t_out.i.v = NumberOf(t_in.value)
        /\ ~NumericLooking(t_in.value) =>
              /\ t_out.f.v = t_in.default
              /\ t_out.i.v = t_in.default

\* C20: with UPDATE_INTERVAL <= 0 the process never enters run_continuous,
\* runs one cycle, and whenever it has exited (after a normal return, a fatal
\* error or an interrupt) close() has run.
C20_Claim ==
    ~Continuous =>
        /\ pc \notin {"rc_init", "cycle_end", "cycle_sleep", "error_sleep"}
        /\ loc.cycle_count <= 1
        /\ pc = "exited" => (loc.cycle_count = 1 /\ loc.closed)

\* C21 (as stated): the backoff wait that precedes remote attempt n (n >= 2)
\* is RETRY_DELAY * 2^(n-1) seconds, and there is no backoff wait after the
\* final failed attempt.  At pc = "fetch_backoff" the attempt that comes next
\* is number obs.calls + 1.
C21_Claim ==
    pc = "fetch_backoff" =>
        /\ loc.sleep = RETRY_DELAY * Pow2((obs.calls + 1) - 1) * 10
        /\ obs.calls < MAX_RETRIES

\* C21 (amended): the backoff wait that precedes remote attempt n (n >= 2) is
\* RETRY_DELAY * 2^(n-2) seconds (10, 20, 40, 80 s), it is followed by the
\* rate-limit wait, and there is no backoff wait after the final failed
\* attempt.
C21_BackoffDelays ==
    /\ [](pc = "fetch_backoff" =>
            /\ obs.calls \in 1..(MAX_RETRIES - 1)
            /\ obs.calls = loc.attempt + 1
            /\ loc.sleep = RETRY_DELAY * Pow2((obs.calls + 1) - 2) * 10)
    /\ [][pc = "fetch_backoff" => pc' \in {"fetch_wait", "closing"}]_vars
    /\ [][(obs'.calls = MAX_RETRIES /\ obs.calls = MAX_RETRIES - 1)
             => pc' # "fetch_backoff"]_vars

\* C21 witness: the wait before the fifth attempt, 80 s
C21_Witness ==
    /\ pc = "fetch_backoff"
    /\ obs.calls = 4
    /\ loc.sleep = 800

\* C22: a 200 response that fails shape validation (empty, not a list, or one
\* of its first 5 entries lacks a required field or is not a mapping) is
\* handled exactly like a transport failure: it counts as a failed request
\* and consumes the attempt, the backoff wait and a retry follow (the error is
\* raised when it was the last attempt), and the body is neither returned nor
\* written to the cache.
C22_Claim ==
    [][(/\ pc = "fetch_call"
        /\ \/ obs'.resp_log.rejected = obs.resp_log.rejected + 1
           \/ obs'.resp_log.malformed = obs.resp_log.malformed + 1)
         => /\ cache' = cache
            /\ stats'.failed_requests = stats.failed_requests + 1
            /\ obs'.calls = obs.calls + 1
            /\ obs'.fetch_outcome # "remote"
            /\ loc'.data = <<>>
            /\ IF loc.attempt < MAX_RETRIES - 1
               THEN pc' = "fetch_backoff" /\ loc'.sleep = BackoffDelay(loc.attempt)
               ELSE obs'.fetch_outcome = "raised"]_vars

\* the value the raw-snapshot key holds after set_cache(key, dumps(d), 300)
WrittenRaw(d) == [present |-> TRUE, ttl |-> 300, v |-> JsonDumps(d)]

\* C23: a remote fetch that succeeds returns a list that passed
\* validate_api_response and, in the same step, before it returns, leaves it
\* under the raw-snapshot key with a 300 s expiry (the key is left as it was
\* only when there is no client or the write raised); and every list returned
\* on a hit of a key that the pipeline wrote (not the entry left by another
\* writer) passed validate_api_response and is the list that was written.
C23_CachedValidated ==
    /\ [][(pc = "fetch_call" /\ obs'.fetch_outcome = "remote")
            => /\ validate_api_response(ListBody(loc'.data)) = "ok"
               /\ cache'.raw \in {WrittenRaw(loc'.data), cache.raw}
               /\ redis_client = "None" => cache'.raw = cache.raw
               /\ pc' = "fetched"]_vars
    /\ []((obs.fetch_outcome = "hit" /\ obs.raw0 # LeftEmpty)
            => /\ validate_api_response(ListBody(loc.data)) = "ok"
               /\ obs.raw0 = WrittenRaw(loc.data))
    /\ [](cache.raw.present => (cache.raw = LeftEmpty
                                  \/ validate_api_response(ListBody(JsonLoads(cache.raw.v))) = "ok"))

\* C23 witness: the second cycle is served from the key the first cycle wrote
C23_Witness ==
    /\ loc.cycle_count = 2
    /\ obs.fetch_outcome = "hit"
    /\ pc = "fetched"
    /\ loc.data # <<>>
    /\ cache.raw = WrittenRaw(loc.data)

\* C24: _store_in_redis attempts the write of a batch at most 3 times, waits
\* 1 s after the first failed attempt and 2 s after the second and does not
\* wait after the third; it stops at the first attempt that succeeds; and a
\* batch that failed on every attempt is reported by the return value False
\* (counted as failed by the caller), never by an exception.
C24_StoreRetries ==
    /\ [](pc \in {"store_attempt", "store_backoff"} => loc.store_attempt \in 0..2)
    /\ [](pc = "store_backoff" =>
            /\ loc.store_attempt \in {0, 1}
            /\ loc.sleep = IF loc.store_attempt = 0 THEN 10 ELSE 20)
    /\ [][(pc = "store_attempt" /\ pc' = "store_attempt")
            => (loc'.i # loc.i /\ loc'.store_attempt = 0)]_vars
    /\ [][(pc = "store_attempt" /\ Len(obs'.batches) = Len(obs.batches) + 1)
            => /\ pc' \in {"load_pause", "load_batch", "stats"}
               /\ obs'.batches[Len(obs'.batches)].ok \/ loc.store_attempt = 2
               /\ ~obs'.batches[Len(obs'.batches)].ok =>
                     loc'.failed_count = loc.failed_count
                                           + Len(BatchOf(loc.transformed_data, loc.i))]_vars
    /\ [][(pc = "load_batch" \/ pc = "store_attempt" \/ pc = "store_backoff")
            => obs'.cycle_result # "fatal"]_vars

\* C24 witness: a batch failed on the third attempt too and the load went on
C24_Witness ==
    /\ redis_client = "client"
    /\ pc = "load_pause"
    /\ loc.store_attempt = 2
    /\ Len(obs.batches) = 1
    /\ ~obs.batches[1].ok
    /\ loc.failed_count = batch_size
    /\ obs.cycle_result = "running"

\* C25: every remote call is immediately preceded by the rate-limit wait of
\* RATE_LIMIT_DELAY (1.2 s): the step before a call is that wait, nothing
\* happens between the wait and the call, and each wait is followed by at most
\* one call; so at least 1.2 s pass between two consecutive calls, within an
\* extraction and across cycles.
C25_RateLimit ==
    /\ [][loc'.all_calls # loc.all_calls
            => /\ pc = "fetch_call"
               /\ loc'.all_calls = loc.all_calls + 1
               /\ loc.sleep = 12
               /\ obs.rate_waits = obs.calls + 1
               /\ pc' # "fetch_call"]_vars
    /\ [][(pc' = "fetch_call" /\ pc # "fetch_call")
            => /\ pc = "fetch_wait"
               /\ loc'.sleep = 12
               /\ obs'.rate_waits = obs.rate_waits + 1
               /\ obs'.calls = obs.calls]_vars
    /\ [](obs.calls <= obs.rate_waits /\ obs.rate_waits <= obs.calls + 1)

\* C25 witness: the first call of the second cycle, after calls in the first
C25_Witness ==
    /\ pc = "fetch_call"
    /\ loc.cycle_count = 2
    /\ loc.all_calls >= 2
    /\ obs.calls = 0
    /\ obs.rate_waits = 1
    /\ loc.sleep = 12

\* C26: a cycle starts only at the top of the loop, after the cycle before it
\* has returned or raised; a step makes at most one remote call or one batch
\* write, a call only in the extraction of the running cycle and a write only
\* in its load; and the write of a batch is attempted, and the loop moves to
\* the next batch, only when every earlier batch has its final outcome.
C26_OneAtATime ==
    /\ [][loc'.cycle_count # loc.cycle_count
            => /\ pc = "loop_top"
               /\ pc' = "fetch_cache"
               /\ loc'.cycle_count = loc.cycle_count + 1
               /\ IF loc.cycle_count = 0 THEN obs.cycle_result = "none" ELSE CycleOver
               /\ obs'.cycle_result = "running"]_vars
    /\ [][/\ (loc'.all_calls - loc.all_calls) + (loc'.all_writes - loc.all_writes) \in {0, 1}
          /\ loc'.all_calls # loc.all_calls
                => (obs.phase = "Extract" /\ obs.cycle_result = "running")
          /\ loc'.all_writes # loc.all_writes
                => (obs.phase = "Load" /\ obs.cycle_result = "running")]_vars
    /\ [](pc \in {"store_attempt", "store_backoff"}
            => Len(obs.batches) = BatchNum(loc.i) - 1)
    /\ [][(loc'.i # loc.i /\ loc'.i # 0)
            => /\ loc'.i = loc.i + batch_size
               /\ Len(obs'.batches) = BatchNum(loc.i)]_vars

\* C26 witness: the third batch is being written in a second cycle, after the
\* first two batches got their outcome
C26_Witness ==
    /\ pc = "store_attempt"
    /\ loc.cycle_count = 2
    /\ obs.prev_result = "fatal"
    /\ loc.i = 2 * batch_size
    /\ Len(obs.batches) = 2

\* C27: in continuous mode a cancellation that arrives during a cycle, during
\* the sleep between cycles or during the sleep after a fatal cycle ends the
\* loop: the process only closes and exits, no cycle is started, no remote
\* call or batch write is made afterwards, and the price keys written before
\* the cancellation stay as they are.
C27_CancelEndsLoop ==
    /\ [][(Continuous /\ pc # "main" /\ obs'.cancelled /\ ~obs.cancelled)
            => /\ pc \in AwaitPoints
               /\ pc' = "closing"
               /\ cache' = cache
               /\ loc'.cycle_count = loc.cycle_count]_vars
    /\ []((Continuous /\ obs.cancelled) => pc \in {"closing", "exited"})
    /\ [][(Continuous /\ obs.cancelled)
            => /\ obs'.cancelled
               /\ cache' = cache
               /\ loc'.cycle_count = loc.cycle_count
               /\ loc'.all_calls = loc.all_calls
               /\ loc'.all_writes = loc.all_writes]_vars

\* C27 witness: cancelled during the load of the first cycle, after a batch
\* had been committed; the process has exited and the keys are still there
C27_Witness ==
    /\ Continuous
    /\ obs.cancelled
    /\ pc = "exited"
    /\ obs.cycle_result = "cancelled"
    /\ obs.phase = "Load"
    /\ loc.cycle_count = 1
    /\ Cardinality(DOMAIN cache.store) >= batch_size

\* C28: after any number of cycles there is at most one stored statistics
\* entry, and after a cycle whose statistics write succeeded the store holds
\* exactly the statistics computed from that cycle's raw records: a write
\* replaces the entry, entries do not accumulate.
C28_Claim ==
    t_pc = "table" =>
        /\ Len(t_out) <= 1
        /\ t_in.wrote =>
              t_out = <<[timestamp |-> t_in.cycle,
                         market_stats |-> ComputeMarketStats(t_in.data).market_stats]>>

\* C29: the cache connection is established at most once per process and the
\* handle is never replaced afterwards: no step after main's init_redis
\* (entering continuous mode, starting a cycle) creates a connection or
\* changes the global handle.
C29_Claim ==
    /\ [](loc.handles <= 1)
    /\ [][pc # "main" => (redis_client' = redis_client /\ loc'.handles = loc.handles)]_vars

\* C30: cache errors never fail the extraction.  Without a client (Redis was
\* unavailable at start-up) or when the read of the key raises, the lookup is
\* a miss and the extraction goes on to the market source; a valid answer of
\* the source is returned whether or not the cache write worked, and without
\* a client the write changes nothing; no step of the lookup or of the cache
\* write ends the cycle with an error.
C30_CacheOptional ==
    /\ [][(pc = "fetch_cache" /\ pc' # "closing" /\ cache' = cache
              /\ (redis_client = "None" \/ obs'.read_failed))
            => /\ pc' = "fetch_wait"
               /\ obs'.fetch_outcome = "none"
               /\ obs'.cycle_result = "running"
               /\ stats'.cache_misses = stats.cache_misses + 1
               /\ stats'.cache_hits = stats.cache_hits]_vars
    /\ [][(pc = "fetch_call" /\ obs'.resp_log.ok = obs.resp_log.ok + 1)
            => /\ pc' = "fetched"
               /\ obs'.fetch_outcome = "remote"
               /\ obs'.cycle_result = "running"
               /\ loc'.data = obs'.last_body
               /\ loc'.data # <<>>
               /\ redis_client = "None" => cache' = cache]_vars
    /\ [](redis_client = "None" => obs.fetch_outcome # "hit")

\* C30 witness: Redis was down at start-up, the key holds a value, and the
\* extraction returned the list of the market source
C30_Witness ==
    /\ redis_client = "None"
    /\ cache.raw.present
    /\ pc = "fetched"
    /\ obs.fetch_outcome = "remote"
    /\ loc.data # <<>>
    /\ stats.cache_misses = 1

\* C31: every snapshot transform_data emits has price >= 0, market cap >= 0,
\* 24h volume >= 0 and a lowercase id, whatever the raw input (a raw record
\* with a negative current_price is never emitted with a negative price).
C31_Claim ==
    (t_pc = "done" /\ ~t_out.raised) =>
        \A j \in 1..Len(t_out.out) :
            /\ t_out.out[j].price >= 0
            /\ t_out.out[j].market_cap >= 0
            /\ t_out.out[j].volume_24h >= 0
            /\ Lower(t_out.out[j].id) = t_out.out[j].id

\* the value is there and not null, and float() does not accept it
NotANumber(v) == v.k = "str" /\ v.s # "" /\ ~ParseFloat(v.s).ok

\* C32: a raw record whose current_price is present and non-null but cannot
\* be coerced to a number is skipped and recorded as a record-level error; it
\* is not emitted as a snapshot.
C32_Claim ==
    (t_pc = "done" /\ AllDicts(t_in)) =>
        LET bad == {j \in 1..Len(t_in) :
                      AllRequired(t_in[j]) /\ NotANumber(t_in[j].current_price)}
        IN  /\ \A j \in bad : \E e \in 1..Len(t_out.errors) : t_out.errors[e].i = j - 1
            /\ Len(t_out.out) <= Len(t_in) - Cardinality(bad)

\* C33: when the statistics are computed, every record with a positive market
\* cap is counted in exactly one tier (large if cap > 10 bn, mid if
\* 1 bn < cap <= 10 bn, small if 0 < cap <= 1 bn), records with no or zero
\* market cap are counted in none, and large + mid + small is the active
\* count.
C33_Claim ==
    (t_pc = "done" /\ ~t_out.exc) =>
        LET tiers == t_out.market_stats.market_cap_percentage
            caps == [j \in 1..Len(t_in) |->
                        IF t_in[j].market_cap.k = "num" THEN t_in[j].market_cap.n ELSE 0]
            n(P(_)) == Cardinality({j \in 1..Len(t_in) : P(caps[j])})
        IN  /\ tiers.large_cap = n(LAMBDA x : x > LARGE_CAP)
            /\ tiers.mid_cap = n(LAMBDA x : MID_CAP < x /\ x <= LARGE_CAP)
            /\ tiers.small_cap = n(LAMBDA x : 0 < x /\ x <= MID_CAP)
            /\ tiers.large_cap + tiers.mid_cap + tiers.small_cap
                  = t_out.market_stats.active_cryptocurrencies

\* the market caps of the rows, largest first (null counts as 0)
RECURSIVE CapsDescending(_)
CapsDescending(S) ==
    IF S = {} THEN <<>>
    ELSE LET cap(j) == IF t_in[j].market_cap.k = "null" THEN 0 ELSE t_in[j].market_cap.n
             top == CHOOSE j \in S : \A k \in S : cap(k) <= cap(j)
         IN  <<cap(top)>> \o CapsDescending(S \ {top})

\* C34: the statistics carry the dominance of the two assets with the largest
\* market cap among the current snapshots, each the asset's cap divided by the
\* total cap times 100 (to two decimals; 0 when the total is 0 or there is no
\* such asset), hence between 0 and 100.
C34_Claim ==
    t_pc = "done" =>
        LET caps == CapsDescending(1..Len(t_in))
            share(i) == IF Len(caps) >= i /\ t_out.total_market_cap > 0
                        THEN RoundPct(caps[i], t_out.total_market_cap) ELSE 0
        IN  /\ ~t_out.exc
            /\ \/ t_out.btc_dominance = share(1) /\ t_out.eth_dominance = share(2)
               \/ t_out.btc_dominance = share(2) /\ t_out.eth_dominance = share(1)
            /\ t_out.btc_dominance \in 0..10000
            /\ t_out.eth_dominance \in 0..10000

\* the summed weights of the checked fields that are absent or null
RECURSIVE MissingWeight(_, _)
MissingWeight(item, i) ==
    IF i > Len(checks) THEN 0
    ELSE (IF item[checks[i].field].k \in {"abs", "null"} THEN checks[i].weight ELSE 0)
         + MissingWeight(item, i + 1)

\* C35: the quality score is 100 minus the summed weights of exactly the
\* checked fields that are absent or null in the raw record; a field that is
\* present and not null, the value 0 included, costs nothing.
C35_Claim ==
    t_pc = "done" => t_out.score = 100 - MissingWeight(t_in, 1)

\* C36: when the market source fails on every attempt, fetch_crypto_data
\* hands its caller an empty result instead of raising.
C36_Claim ==
    obs.resp_log = OnlyErrors(MAX_RETRIES) =>
        /\ obs.fetch_outcome = "returned_none"
        /\ obs.cycle_result # "fatal"

\* C37: total_requests counts every remote call made to the market source
\* (the successful requests plus the failed remote attempts), and
\* failed_requests counts only failed remote attempts: the load stage does not
\* change it.
C37_Claim ==
    /\ stats.total_requests = loc.all_calls
    /\ stats.failed_requests <= loc.all_calls - stats.successful_requests

\* the snapshots of a batch whose write succeeded that have their key in the
\* store, holding the value built from them
WrittenOk ==
    {j \in 1..Len(t_in.data) :
        /\ t_in.res[BatchNum(j - 1)] = "ok"
        /\ t_in.data[j].id # ""
        /\ PriceKey(t_in.data[j]) \in DOMAIN t_out.store
        /\ t_out.store[PriceKey(t_in.data[j])].v = RedisValue(t_in.data[j], T_LOAD)}

\* C38: at the end of update_database on n snapshots success_count +
\* failed_count = n, and a snapshot is counted as succeeded only if its key
\* 'crypto:price:<id>' holding its data was written by a successful batch write.
C38_Claim ==
    t_pc = "done" =>
        /\ t_out.success_count + t_out.failed_count = Len(t_in.data)
        /\ t_out.success_count = Cardinality(WrittenOk)

\* C39: cache_hits + cache_misses is the number of fetch_crypto_data
\* invocations (one per cycle; the invocation whose lookup is still pending,
\* or was cancelled while pending, is not counted yet), and a remote call is
\* made only in an invocation that was counted as a cache miss.
C39_HitsAndMisses ==
    /\ [](/\ stats.cache_hits + stats.cache_misses <= loc.cycle_count
          /\ stats.cache_hits + stats.cache_misses >= loc.cycle_count - 1
          /\ (~obs.cancelled /\ pc # "fetch_cache")
                => stats.cache_hits + stats.cache_misses = loc.cycle_count)
    /\ [][(loc'.all_calls # loc.all_calls)
            => /\ stats.cache_misses = obs.stats0.cache_misses + 1
               /\ stats.cache_hits = obs.stats0.cache_hits
               /\ obs.fetch_outcome # "hit"
               /\ UNCHANGED <<stats.cache_hits, stats.cache_misses>>]_vars

\* C39 witness: two invocations, the first a miss that called the source,
\* the second a hit that did not
C39_Witness ==
    /\ loc.cycle_count = 2
    /\ stats.cache_misses = 1
    /\ stats.cache_hits = 1
    /\ loc.all_calls = 1
    /\ obs.fetch_outcome = "hit"
    /\ obs.calls = 0
    /\ pc = "fetched"

\* C40: in continuous mode with UPDATE_INTERVAL at least the expiry of the
\* raw snapshot, no cycle's extraction is served from the snapshot that the
\* previous cycle cached.
C40_Claim ==
    UPDATE_INTERVAL >= RAW_TTL => t_out.served # "cache"

=============================================================================
